---- MODULE Spec2Model ----
(***************************************************************************)
(* Model of large_object.go: baseLargeObject, its constructor              *)
(* newLargeObject and the six operations that forward to Client.Execute.   *)
(*                                                                         *)
(* A handle is a record of the five struct fields.  Every operation is a   *)
(* call of Client.Execute followed by the operation's handling of the      *)
(* pair (result, error) the call returns.  Callers (goroutines) run        *)
(* operations concurrently: an operation is split at the blocking          *)
(* Execute call, so other callers may run while one waits.                 *)
(***************************************************************************)
EXTENDS Integers, Sequences, FiniteSets, Bags, TLC

(* ---------------------------- bounds ---------------------------------- *)
MaxHandles == 2
MaxCapacity == 1

(* ------------------------ input domains ------------------------------- *)
(* The argument lists newLargeObject is called with:                     *)
(* <<client, policy, key, binName, userModule>>.                         *)
CtorInputs == {<<"client1", "policy1", "key1", "mylist", "">>,
               <<"client2", "policy1", "key1", "mylist", "mod">>,
               <<"client1", "nilPolicy", "key2", "", "mod">>}
Kinds == {"LargeList", "LargeStack"}
Capacities == 0..MaxCapacity
Callers == {"g1", "g2"}
NilError == "nil"

(* --------------------- the store's Value wrappers --------------------- *)
NewStringValue(s) == [type |-> "string", str |-> s, int |-> 0]
NewNullValue == [type |-> "null", str |-> "", int |-> 0]
NewIntegerValue(n) == [type |-> "integer", str |-> "", int |-> n]

(* ---------------- Go values: interface{} and typed returns ------------ *)
(* NilIface is the nil interface{}; the other values are what an          *)
(* interface{} can hold or what an operation returns.  A map or a slice   *)
(* is nil (absent) or not; items are its entries (key i |-> items[i]) or  *)
(* its elements.                                                          *)
NilIface == [type |-> "nil", int |-> 0, isNil |-> TRUE, items |-> <<>>]
NoValue == [type |-> "none", int |-> 0, isNil |-> FALSE, items |-> <<>>]
IntVal(n) == [type |-> "int", int |-> n, isNil |-> FALSE, items |-> <<>>]
StrVal == [type |-> "string", int |-> 0, isNil |-> FALSE, items |-> <<>>]
MapVal(m) == [type |-> "map", int |-> 0, isNil |-> FALSE, items |-> m]
NilMap == [type |-> "map", int |-> 0, isNil |-> TRUE, items |-> <<>>]
SliceVal(s) == [type |-> "slice", int |-> 0, isNil |-> FALSE, items |-> s]
NilSlice == [type |-> "slice", int |-> 0, isNil |-> TRUE, items |-> <<>>]

(* What Client.Execute hands back as its result: absent, an integer, a   *)
(* mapping, a sequence, or a value of another shape.  A mapping or a     *)
(* sequence it hands back is an allocated one, never a nil map or slice. *)
Results == {NilIface, IntVal(0), IntVal(7), StrVal,
            MapVal(<<>>), MapVal(<<1>>), SliceVal(<<>>), SliceVal(<<1>>)}

(* The pairs (result, error) Client.Execute returns: any result with no  *)
(* error, any result beside an error, and a second, different error.     *)
Replies == (Results \X {NilError, "bin not found"}) \cup {<<NilIface, "timeout">>}

(* packageName() of each concrete kind. *)
packageName(ifc) == IF ifc = "LargeList" THEN "llist" ELSE "lstack"

(* ------------------------- newLargeObject ----------------------------- *)
(* Faulty variant: the module name is always wrapped as a string value. *)
newLargeObjectModuleAsString(client, policy, key, binName, userModule) ==
  [client |-> client, policy |-> policy, key |-> key,
   binName |-> NewStringValue(binName),
   userModule |-> NewStringValue(userModule)]

newLargeObject(client, policy, key, binName, userModule) ==
  [client |-> client, policy |-> policy, key |-> key,
   binName |-> NewStringValue(binName),
   userModule |-> IF userModule = "" THEN NewNullValue ELSE NewStringValue(userModule)]

(* One call of lo.client.Execute(policy, key, packageName, functionName, args...). *)
ExecuteCall(client, policy, key, pkg, fn, args) ==
  [client |-> client, policy |-> policy, key |-> key,
   packageName |-> pkg, functionName |-> fn, args |-> args]

(* What an operation hands back to its caller, or the panic that ends it. *)
Return(val, err) == [panic |-> FALSE, val |-> val, err |-> err]
Panic == [panic |-> TRUE, val |-> NoValue, err |-> NilError]

(* --------------------------- operations ------------------------------- *)
(* Each operation is its Execute call (xxxCall) and what it makes of the  *)
(* returned pair (xxxReturn).  x.(T) on an interface value panics unless  *)
(* the value held has type T; the nil interface holds none.               *)

destroyCall(lo, ifc) ==
  ExecuteCall(lo.client, lo.policy, lo.key, packageName(ifc), "destroy", <<lo.binName>>)

destroyReturn(ret, err) == Return(NoValue, err)

sizeCall(lo, ifc) ==
  ExecuteCall(lo.client, lo.policy, lo.key, packageName(ifc), "size", <<lo.binName>>)

(* Faulty variant: an absent result is reported as -1. *)
sizeReturnNoDefault(ret, err) ==
  IF err # NilError THEN Return(IntVal(-1), err)
  ELSE IF ret.type = "int" THEN Return(ret, NilError)
  ELSE IF ret = NilIface THEN Return(IntVal(-1), NilError) ELSE Panic

sizeReturn(ret, err) ==
  IF err # NilError THEN Return(IntVal(-1), err)
  ELSE IF ret # NilIface
       THEN (IF ret.type = "int" THEN Return(ret, NilError) ELSE Panic)
       ELSE Return(IntVal(0), NilError)

(* Faulty variant: the module value is sent after the bin. *)
getConfigCallWithModule(lo, ifc) ==
  ExecuteCall(lo.client, lo.policy, lo.key, packageName(ifc), "get_config",
              <<lo.binName, lo.userModule>>)

getConfigCall(lo, ifc) ==
  ExecuteCall(lo.client, lo.policy, lo.key, packageName(ifc), "get_config", <<lo.binName>>)

(* Faulty variant: an absent result becomes an empty map, as scan does for slices. *)
getConfigReturnEmptyForAbsent(res, err) ==
  IF err # NilError THEN Return(NilMap, err)
  ELSE IF res = NilIface THEN Return(MapVal(<<>>), NilError)
  ELSE IF res.type = "map" THEN Return(res, err) ELSE Panic

getConfigReturn(res, err) ==
  IF err # NilError THEN Return(NilMap, err)
  ELSE IF res = NilIface THEN Return(NilMap, NilError)
  ELSE IF res.type = "map" THEN Return(res, err) ELSE Panic

(* Faulty variant: the module value is sent after the capacity. *)
setCapacityCallWithModule(lo, ifc, capacity) ==
  ExecuteCall(lo.client, lo.policy, lo.key, packageName(ifc), "set_capacity",
              <<lo.binName, NewIntegerValue(capacity), lo.userModule>>)

(* Faulty variant: the capacity is not sent. *)
setCapacityCallNoCapacity(lo, ifc, capacity) ==
  ExecuteCall(lo.client, lo.policy, lo.key, packageName(ifc), "set_capacity", <<lo.binName>>)

setCapacityCall(lo, ifc, capacity) ==
  ExecuteCall(lo.client, lo.policy, lo.key, packageName(ifc), "set_capacity",
              <<lo.binName, NewIntegerValue(capacity)>>)

setCapacityReturn(ret, err) == Return(NoValue, err)

getCapacityCall(lo, ifc) ==
  ExecuteCall(lo.client, lo.policy, lo.key, packageName(ifc), "get_capacity", <<lo.binName>>)

(* Faulty variant: the result is converted before the error is looked at. *)
getCapacityReturnConvertFirst(ret, err) ==
  IF ret.type # "int" THEN Panic
  ELSE IF err # NilError THEN Return(IntVal(-1), err) ELSE Return(ret, NilError)

(* Faulty variant: an absent result is defaulted to 0, as size does. *)
getCapacityReturnLenient(ret, err) ==
  IF err # NilError THEN Return(IntVal(-1), err)
  ELSE IF ret # NilIface
       THEN (IF ret.type = "int" THEN Return(ret, NilError) ELSE Panic)
       ELSE Return(IntVal(0), NilError)

getCapacityReturn(ret, err) ==
  IF err # NilError THEN Return(IntVal(-1), err)
  ELSE IF ret.type = "int" THEN Return(ret, NilError) ELSE Panic

scanCall(lo, ifc) ==
  ExecuteCall(lo.client, lo.policy, lo.key, packageName(ifc), "scan", <<lo.binName>>)

(* Faulty variant: an absent result is handed on as an absent slice. *)
scanReturnNilForAbsent(ret, err) ==
  IF err # NilError THEN Return(NilSlice, err)
  ELSE IF ret = NilIface THEN Return(NilSlice, NilError)
  ELSE IF ret.type = "slice" THEN Return(ret, NilError) ELSE Panic

scanReturn(ret, err) ==
  IF err # NilError THEN Return(NilSlice, err)
  ELSE IF ret = NilIface THEN Return(SliceVal(<<>>), NilError)
  ELSE IF ret.type = "slice" THEN Return(ret, NilError) ELSE Panic

(* The operation op's handling of the pair Execute returned. *)
OpReturn(op, ret, err) ==
  CASE op = "destroy" -> destroyReturn(ret, err)
    [] op = "size" -> sizeReturn(ret, err)
    [] op = "getConfig" -> getConfigReturn(ret, err)
    [] op = "setCapacity" -> setCapacityReturn(ret, err)
    [] op = "getCapacity" -> getCapacityReturn(ret, err)
    [] op = "scan" -> scanReturn(ret, err)

(* ------------------------------ state --------------------------------- *)
VARIABLES
  handles,   \* the handles constructed so far, in order of construction
  ctor,      \* ctor[h]: the arguments newLargeObject was given for handles[h]
  inflight,  \* the bag of operations whose caller is blocked inside Execute
  returned,  \* the operation returning in this step: what Execute gave it and what
             \* it hands its caller (NoReturn when the step is not a return)
  stored,    \* the capacity the echoing executor holds (EchoSpec)
  lastSet    \* <<capacity>> given to the setCapacity that returned last (EchoSpec)

vars == <<handles, ctor, inflight, returned, stored, lastSet>>

(* An operation in progress: its inputs and the Execute calls it has made. *)
Frame(h, op, ifc, capacity, call) ==
  [h |-> h, op |-> op, ifc |-> ifc, capacity |-> capacity, calls |-> <<call>>]
NoReturn == [op |-> "none", ncalls |-> 0, ret |-> NilIface, err |-> NilError,
             out |-> Return(NoValue, NilError)]

Init ==
  /\ handles = <<>>
  /\ ctor = <<>>
  /\ inflight = EmptyBag
  /\ returned = NoReturn
  /\ stored = NilIface
  /\ lastSet = <<>>

(* An unrecovered panic ends the process. *)
Running == ~returned.out.panic

New(client, policy, key, binName, userModule) ==
  /\ Running
  /\ Len(handles) < MaxHandles
  /\ handles' = Append(handles, newLargeObject(client, policy, key, binName, userModule))
  /\ ctor' = Append(ctor, [client |-> client, policy |-> policy, key |-> key,
                           binName |-> binName, userModule |-> userModule])
  /\ returned' = NoReturn
  /\ UNCHANGED <<inflight, stored, lastSet>>

(* Faulty variant: the operation keeps its capacity argument in the handle. *)
EnterStoresCapacity(frame) ==
  /\ Running
  /\ BagCardinality(inflight) < Cardinality(Callers)
  /\ inflight' = inflight (+) SetToBag({frame})
  /\ returned' = NoReturn
  /\ handles' = [handles EXCEPT ![frame.h].userModule = NewIntegerValue(frame.capacity)]
  /\ UNCHANGED <<ctor, stored, lastSet>>

(* A caller enters an operation: the operation issues its Execute call and blocks. *)
Enter(frame) ==
  /\ Running
  /\ BagCardinality(inflight) < Cardinality(Callers)
  /\ inflight' = inflight (+) SetToBag({frame})
  /\ returned' = NoReturn
  /\ UNCHANGED <<handles, ctor, stored, lastSet>>

destroy(h, ifc) ==
  /\ h \in 1..Len(handles)
  /\ Enter(Frame(h, "destroy", ifc, 0, destroyCall(handles[h], ifc)))

size(h, ifc) ==
  /\ h \in 1..Len(handles)
  /\ Enter(Frame(h, "size", ifc, 0, sizeCall(handles[h], ifc)))

getConfig(h, ifc) ==
  /\ h \in 1..Len(handles)
  /\ Enter(Frame(h, "getConfig", ifc, 0, getConfigCall(handles[h], ifc)))

setCapacity(h, ifc, capacity) ==
  /\ h \in 1..Len(handles)
  /\ Enter(Frame(h, "setCapacity", ifc, capacity, setCapacityCall(handles[h], ifc, capacity)))

getCapacity(h, ifc) ==
  /\ h \in 1..Len(handles)
  /\ Enter(Frame(h, "getCapacity", ifc, 0, getCapacityCall(handles[h], ifc)))

scan(h, ifc) ==
  /\ h \in 1..Len(handles)
  /\ Enter(Frame(h, "scan", ifc, 0, scanCall(handles[h], ifc)))

(* Execute returns (ret, err) to the caller inside frame, and the operation returns. *)
Leave(frame, ret, err) ==
  /\ Running
  /\ BagIn(frame, inflight)
  /\ returned' = [op |-> frame.op, ncalls |-> Len(frame.calls), ret |-> ret, err |-> err,
                  out |-> OpReturn(frame.op, ret, err)]
  /\ inflight' = inflight (-) SetToBag({frame})
  /\ UNCHANGED <<handles, ctor>>

(* The executor may answer any call with any result and any error. *)
Execute(frame, ret, err) ==
  /\ Leave(frame, ret, err)
  /\ UNCHANGED <<stored, lastSet>>

(* The echoing executor: it stores the integer sent with "set_capacity",  *)
(* answers "get_capacity" with what it holds, and never fails.            *)
EchoStore(call) ==
  IF call.functionName = "set_capacity" /\ Len(call.args) >= 2 /\ call.args[2].type = "integer"
  THEN IntVal(call.args[2].int)
  ELSE stored

EchoResult(call) == IF call.functionName = "get_capacity" THEN stored ELSE NilIface

EchoExecute(frame) ==
  /\ Leave(frame, EchoResult(frame.calls[1]), NilError)
  /\ stored' = EchoStore(frame.calls[1])
  /\ lastSet' = IF frame.op = "setCapacity" THEN <<frame.capacity>> ELSE lastSet

Construct == \E in \in CtorInputs : New(in[1], in[2], in[3], in[4], in[5])

Operate ==
  \/ \E h \in 1..MaxHandles, ifc \in Kinds : destroy(h, ifc)
  \/ \E h \in 1..MaxHandles, ifc \in Kinds : size(h, ifc)
  \/ \E h \in 1..MaxHandles, ifc \in Kinds : getConfig(h, ifc)
  \/ \E h \in 1..MaxHandles, ifc \in Kinds, n \in Capacities : setCapacity(h, ifc, n)
  \/ \E h \in 1..MaxHandles, ifc \in Kinds : getCapacity(h, ifc)
  \/ \E h \in 1..MaxHandles, ifc \in Kinds : scan(h, ifc)

Next ==
  \/ Construct
  \/ Operate
  \/ \E frame \in BagToSet(inflight), reply \in Replies : Execute(frame, reply[1], reply[2])

Spec == Init /\ [][Next]_vars

EchoNext ==
  \/ Construct
  \/ Operate
  \/ \E frame \in BagToSet(inflight) : EchoExecute(frame)

EchoSpec == Init /\ [][EchoNext]_vars

(* ============================== claims ================================ *)

IsReturn == returned.op # "none"
Succeeded == IsReturn /\ ~returned.out.panic /\ returned.out.err = NilError
AbsentReply == returned.ret = NilIface /\ returned.err = NilError
Frames == BagToSet(inflight)

(* C1: whenever Execute returns an error e, whatever result comes with it, *)
(* the operation returns exactly e, has made exactly one Execute call and  *)
(* does not panic.                                                         *)
C1_ErrorPropagates ==
  (IsReturn /\ returned.err # NilError) =>
    /\ ~returned.out.panic
    /\ returned.out.err = returned.err
    /\ returned.ncalls = 1

C1_Witness ==
  /\ returned.op = "getCapacity"
  /\ returned.ret = MapVal(<<1>>)
  /\ returned.err = "bin not found"
  /\ returned.out.err = "bin not found"

(* C2: getCapacity answered with (absent, no error) ends in a panic, not   *)
(* in a value or an error; size answered the same way returns 0, no error. *)
C2_GetCapacityAbsentPanics ==
  /\ (returned.op = "getCapacity" /\ AbsentReply) => returned.out.panic
  /\ (returned.op = "size" /\ AbsentReply) =>
       (~returned.out.panic /\ returned.out.val.int = 0 /\ returned.out.err = NilError)

C2_Witness == returned.op = "getCapacity" /\ AbsentReply /\ returned.out.panic

(* C3: size answered with (absent, no error) returns exactly 0 and no      *)
(* error; answered with (integer n, no error) it returns n and no error.   *)
C3_Size ==
  /\ (returned.op = "size" /\ AbsentReply) =>
       (~returned.out.panic /\ returned.out.val.type = "int"
          /\ returned.out.val.int = 0 /\ returned.out.err = NilError)
  /\ (returned.op = "size" /\ returned.ret.type = "int" /\ returned.err = NilError) =>
       (~returned.out.panic /\ returned.out.val.type = "int"
          /\ returned.out.val.int = returned.ret.int /\ returned.out.err = NilError)

C3_Witness ==
  /\ returned.op = "size" /\ returned.ret.type = "int" /\ returned.ret.int = 7
  /\ returned.err = NilError /\ returned.out.val.int = 7

(* C4: getConfig answered with (absent, no error) returns an absent map    *)
(* and no error; answered with an empty map it returns an empty map that   *)
(* is not absent, so the two outcomes differ.                              *)
C4_GetConfig ==
  /\ (returned.op = "getConfig" /\ AbsentReply) =>
       (~returned.out.panic /\ returned.out.err = NilError
          /\ returned.out.val.type = "map" /\ returned.out.val.isNil)
  /\ (returned.op = "getConfig" /\ returned.err = NilError /\ returned.ret.type = "map"
        /\ ~returned.ret.isNil /\ returned.ret.items = <<>>) =>
       (~returned.out.panic /\ returned.out.err = NilError
          /\ returned.out.val.type = "map" /\ ~returned.out.val.isNil
          /\ returned.out.val.items = <<>>)

C4_Witness ==
  /\ returned.op = "getConfig" /\ AbsentReply
  /\ returned.out.val.isNil /\ returned.out.err = NilError

FunctionNameOf(op) ==
  CASE op = "destroy" -> "destroy"
    [] op = "size" -> "size"
    [] op = "getConfig" -> "get_config"
    [] op = "setCapacity" -> "set_capacity"
    [] op = "getCapacity" -> "get_capacity"
    [] op = "scan" -> "scan"

C6_OneCallFixedArguments ==
  /\ \A f \in Frames :
       /\ Len(f.calls) = 1
       /\ f.calls[1].client = handles[f.h].client
       /\ f.calls[1].policy = handles[f.h].policy
       /\ f.calls[1].key = handles[f.h].key
       /\ f.calls[1].packageName = packageName(f.ifc)
       /\ f.calls[1].functionName = FunctionNameOf(f.op)
       /\ f.calls[1].args =
            IF f.op = "setCapacity"
            THEN <<handles[f.h].binName, [type |-> "integer", str |-> "", int |-> f.capacity]>>
            ELSE <<handles[f.h].binName>>
       /\ \A i \in 1..Len(f.calls[1].args) : f.calls[1].args[i] # handles[f.h].userModule
  /\ IsReturn => returned.ncalls = 1

C6_Witness ==
  \E f \in Frames :
    /\ f.op = "setCapacity" /\ f.capacity = 1 /\ f.ifc = "LargeStack"
    /\ ctor[f.h].userModule = "mod"
    /\ f.calls[1].functionName = "set_capacity"
    /\ Len(f.calls[1].args) = 2

(* C7: newLargeObject stores the bin name wrapped as a string value, also  *)
(* when it is empty; it stores the null value for the module exactly when  *)
(* the module name is empty and the wrapped name otherwise, so a handle    *)
(* built with no module differs from one built with any module name.       *)
C7_NewLargeObject ==
  /\ \A h \in 1..Len(handles) :
       /\ handles[h].binName.type = "string"
       /\ handles[h].binName.str = ctor[h].binName
       /\ (handles[h].userModule.type = "null") <=> (ctor[h].userModule = "")
       /\ ctor[h].userModule # "" =>
            (handles[h].userModule.type = "string"
               /\ handles[h].userModule.str = ctor[h].userModule)
  /\ \A h1, h2 \in 1..Len(handles) :
       (ctor[h1].userModule = "" /\ ctor[h2].userModule # "") =>
          handles[h1].userModule # handles[h2].userModule

C7_Witness ==
  \E h1, h2 \in 1..Len(handles) :
    /\ ctor[h1].userModule = "" /\ handles[h1].userModule.type = "null"
    /\ ctor[h2].userModule = "mod" /\ ctor[h2].binName = ""
    /\ handles[h2].binName.type = "string"

(* C8: against the echoing executor, getCapacity returns the capacity      *)
(* given to the setCapacity that returned last, with no error.             *)
C8_SetThenGetCapacity ==
  (returned.op = "getCapacity" /\ lastSet # <<>>) =>
    /\ ~returned.out.panic
    /\ returned.out.err = NilError
    /\ returned.out.val.type = "int"
    /\ returned.out.val.int = lastSet[1]

C8_Witness ==
  /\ returned.op = "getCapacity" /\ lastSet = <<1>>
  /\ returned.out.val.int = 1 /\ returned.out.err = NilError

(* C9: whatever operations run, are in progress or have returned, and      *)
(* whatever Execute answered, every handle holds exactly the field values  *)
(* newLargeObject gave it.                                                 *)
C9_HandlesImmutable ==
  /\ Len(handles) = Len(ctor)
  /\ \A h \in 1..Len(handles) :
       handles[h] =
         [client |-> ctor[h].client, policy |-> ctor[h].policy, key |-> ctor[h].key,
          binName |-> [type |-> "string", str |-> ctor[h].binName, int |-> 0],
          userModule |-> IF ctor[h].userModule = ""
                         THEN [type |-> "null", str |-> "", int |-> 0]
                         ELSE [type |-> "string", str |-> ctor[h].userModule, int |-> 0]]

C9_Witness ==
  /\ Len(handles) = 2
  /\ returned.op = "setCapacity" /\ returned.err # NilError
  /\ \E f \in Frames : f.h = 2 /\ f.op = "destroy"

(* C10: two operations with the same name, kind and inputs, on handles     *)
(* built with the same key, bin name and policy, send Execute the same     *)
(* arguments, in every reachable state (so after any earlier operations    *)
(* and answers).                                                           *)
CallArguments(calls) ==
  [i \in 1..Len(calls) |->
     <<calls[i].policy, calls[i].key, calls[i].packageName, calls[i].functionName,
       calls[i].args>>]

C10_MarshalingDeterministic ==
  \A f1, f2 \in Frames :
    (/\ f1.op = f2.op /\ f1.ifc = f2.ifc /\ f1.capacity = f2.capacity
     /\ ctor[f1.h].key = ctor[f2.h].key
     /\ ctor[f1.h].binName = ctor[f2.h].binName
     /\ ctor[f1.h].policy = ctor[f2.h].policy)
    => CallArguments(f1.calls) = CallArguments(f2.calls)

C10_Witness ==
  \E f1, f2 \in Frames :
    /\ f1.h # f2.h /\ f1.op = "getConfig" /\ f2.op = "getConfig" /\ f1.ifc = f2.ifc
    /\ ctor[f1.h].key = ctor[f2.h].key /\ ctor[f1.h].binName = ctor[f2.h].binName
    /\ ctor[f1.h].policy = ctor[f2.h].policy
    /\ ctor[f1.h].userModule # ctor[f2.h].userModule
    /\ ctor[f1.h].client # ctor[f2.h].client
    /\ CallArguments(f1.calls) = CallArguments(f2.calls)

====
